---- MODULE Spec2Model ----
(***************************************************************************)
(* Model of the storefront page component Home (src/app/page.tsx): the     *)
(* product catalog loader, the auth session, the cart store with its       *)
(* optimistic add-item, the filter/sort/slice pipeline and the             *)
(* IntersectionObserver driven reveal controller.                          *)
(*                                                                         *)
(* One action is one task of the UI event loop: an event handler or a      *)
(* promise continuation, run to completion, together with the render and   *)
(* the effects (useEffect) its state changes trigger.  Requests that have  *)
(* been dispatched and not yet answered are the messages in flight.        *)
(***************************************************************************)
EXTENDS Integers, Sequences, FiniteSets, Bags, TLC

VARIABLES products, productsLoading, searchTerm, sortOption, filterJustIn,
          visibleCount, observer, user, authLoading, cartItems, cartCount,
          inflight, lastEffects

vars == <<products, productsLoading, searchTerm, sortOption, filterJustIn,
          visibleCount, observer, user, authLoading, cartItems, cartCount,
          inflight, lastEffects>>

viewVars == <<searchTerm, sortOption, filterJustIn, visibleCount, observer>>
catalogVars == <<products, productsLoading>>
cartVars == <<user, authLoading, cartItems, cartCount, inflight>>

(***************************************************************************)
(* Bounds of the model.                                                    *)
(***************************************************************************)
CatalogSize == 23
MaxCartCount == 2
MaxInFlight == 2

(***************************************************************************)
(* Program constants.                                                      *)
(***************************************************************************)
InitialVisible == 10
RevealIncrement == 10

None == "none"
Users == {"uidA", "uidB"}

Min(a, b) == IF a < b THEN a ELSE b

(***************************************************************************)
(* Strings are sequences of one-character strings, so that replace,        *)
(* toLowerCase, includes and localeCompare are computed and not assumed.   *)
(***************************************************************************)
Digits == <<"0", "1", "2", "3", "4", "5", "6", "7", "8", "9">>
LowerLetters == <<"a", "b", "c", "d", "f", "k", "p", "r", "s", "u">>
UpperLetters == <<"A", "B", "C", "D", "F", "K", "P", "R", "S", "U">>

IndexIn(c, s) == IF \E i \in DOMAIN s : s[i] = c
                 THEN CHOOSE i \in DOMAIN s : s[i] = c
                 ELSE 0

IsDigit(c) == IndexIn(c, Digits) # 0

\* price.replace(/[^\d]/g, "")
StripNonDigits(s) == SelectSeq(s, IsDigit)

RECURSIVE DigitsToNumber(_)
DigitsToNumber(s) ==
    IF s = <<>> THEN 0
    ELSE 10 * DigitsToNumber(SubSeq(s, 1, Len(s) - 1))
         + (IndexIn(s[Len(s)], Digits) - 1)

\* Number(product.price.replace(/[^\d]/g, ""))
PriceNum(price) == DigitsToNumber(StripNonDigits(price))

ToLowerChar(c) == IF IndexIn(c, UpperLetters) # 0
                  THEN LowerLetters[IndexIn(c, UpperLetters)]
                  ELSE c

ToLowerCase(s) == [i \in DOMAIN s |-> ToLowerChar(s[i])]

\* String.prototype.includes
Includes(s, t) ==
    \E i \in 0..(Len(s) - Len(t)) : SubSeq(s, i + 1, i + Len(t)) = t

\* Rank of a character at the primary (letter) level of the collation.
PrimaryRank(c) == IndexIn(ToLowerChar(c), LowerLetters)

\* Lower case sorts before upper case when the letters are the same.
CaseRank(c) == IF IndexIn(c, UpperLetters) # 0 THEN 1 ELSE 0

RECURSIVE LexCompare(_, _)
LexCompare(a, b) ==
    IF a = <<>> /\ b = <<>> THEN 0
    ELSE IF a = <<>> THEN -1
    ELSE IF b = <<>> THEN 1
    ELSE IF Head(a) < Head(b) THEN -1
    ELSE IF Head(a) > Head(b) THEN 1
    ELSE LexCompare(Tail(a), Tail(b))

\* a.localeCompare(b): letters first, case as the tie-break.
LocaleCompare(a, b) ==
    LET pa == [i \in DOMAIN a |-> PrimaryRank(a[i])]
        pb == [i \in DOMAIN b |-> PrimaryRank(b[i])]
        ca == [i \in DOMAIN a |-> CaseRank(a[i])]
        cb == [i \in DOMAIN b |-> CaseRank(b[i])]
    IN  IF LexCompare(pa, pb) # 0 THEN LexCompare(pa, pb)
        ELSE LexCompare(ca, cb)

(***************************************************************************)
(* The view derivation pipeline: filter, sort, slice.                      *)
(***************************************************************************)
MatchesJustIn(p, f) ==
    IF f = "" THEN TRUE
    ELSE IF f = "justIn" THEN p.justIn = TRUE
    ELSE p.justIn = FALSE

FilterProducts(ps, term, f) ==
    LET Keep(p) == /\ Includes(ToLowerCase(p.name), ToLowerCase(term))
                   /\ MatchesJustIn(p, f)
    IN  SelectSeq(ps, Keep)

\* The comparator handed to Array.prototype.sort for each sort option.
Comparator(opt, a, b) ==
    IF opt = "name-asc" THEN LocaleCompare(a.name, b.name)
    ELSE IF opt = "name-desc" THEN LocaleCompare(b.name, a.name)
    ELSE IF opt = "price-asc" THEN PriceNum(a.price) - PriceNum(b.price)
    ELSE IF opt = "price-desc" THEN PriceNum(b.price) - PriceNum(a.price)
    ELSE 0

\* Array.prototype.sort is stable: x goes after every element it does not
\* precede.
RECURSIVE InsertSorted(_, _, _)
InsertSorted(x, s, opt) ==
    IF s = <<>> THEN <<x>>
    ELSE IF Comparator(opt, x, s[Len(s)]) < 0
         THEN Append(InsertSorted(x, SubSeq(s, 1, Len(s) - 1), opt), s[Len(s)])
         ELSE Append(s, x)

RECURSIVE SortProducts(_, _)
SortProducts(ps, opt) ==
    IF ps = <<>> THEN <<>>
    ELSE InsertSorted(ps[Len(ps)], SortProducts(SubSeq(ps, 1, Len(ps) - 1), opt), opt)

SortedOf(ps, term, f, opt) == SortProducts(FilterProducts(ps, term, f), opt)

filteredProducts == FilterProducts(products, searchTerm, filterJustIn)
sortedProducts == SortProducts(filteredProducts, sortOption)

\* sortedProducts.slice(0, visibleCount)
visibleProducts == SubSeq(sortedProducts, 1, Min(visibleCount, Len(sortedProducts)))

(***************************************************************************)
(* The catalogs the product endpoint may answer with.                      *)
(***************************************************************************)
NameLetters == <<"a", "B", "c", "A", "b">>
NameOf(i) == <<NameLetters[(i % 5) + 1], NameLetters[((i \div 5) % 3) + 1]>>
PriceOf(i) == <<"R", "s", " ", Digits[(i % 3) + 2], ",", Digits[(i % 2) + 1], "0">>

BigCatalog ==
    [i \in 1..CatalogSize |->
        [id |-> ToString(i), name |-> NameOf(i), price |-> PriceOf(i),
         justIn |-> (i % 2 = 0)]]

SmallCatalog ==
    << [id |-> "p1", name |-> <<"D", "u", "p">>,
        price |-> <<"R", "s", " ", "5", "0", "0">>, justIn |-> TRUE],
       [id |-> "p2", name |-> <<"S", "c", "a", "r", "f">>,
        price |-> <<"R", "s", " ", "1", ",", "0", "0", "0">>, justIn |-> FALSE] >>

SearchTerms == {<<>>, <<"a">>, <<"B", "c">>, <<"k">>}
SortOptions == {"name-asc", "name-desc", "price-asc", "price-desc"}
JustInOptions == {"", "justIn", "notJustIn"}

(***************************************************************************)
(* The reveal controller.                                                  *)
(***************************************************************************)
ResetVisibleCountSkipped(vc) == vc

\* The reset effect: setVisibleCount(10).
ResetVisibleCount(vc) == InitialVisible

SubscribeCatalogLength(vc, sorted) == [visibleCount |-> vc, length |-> Len(products)]

\* The observer effect: the callback it subscribes closes over the
\* visibleCount and the sortedProducts of the render that created it.
Subscribe(vc, sorted) == [visibleCount |-> vc, length |-> Len(sorted)]

\* The observer callback, as a function of the closure and of the state
\* (prev) the updater is applied to.
OnIntersectNoCap(obs, isIntersecting, prev) ==
    IF isIntersecting /\ obs.visibleCount < obs.length
    THEN prev + RevealIncrement
    ELSE prev

OnIntersect(obs, isIntersecting, prev) ==
    IF isIntersecting /\ obs.visibleCount < obs.length
    THEN Min(prev + RevealIncrement, obs.length)
    ELSE prev

(***************************************************************************)
(* The cart store.                                                         *)
(***************************************************************************)
RECURSIVE TotalCount(_)
TotalCount(items) ==
    IF items = <<>> THEN 0
    ELSE items[Len(items)].quantity + TotalCount(SubSeq(items, 1, Len(items) - 1))

NewItem(product) ==
    [productId |-> product.id, name |-> product.name,
     price |-> PriceNum(product.price), quantity |-> 1]

MergeItemAlwaysAppend(items, product) == Append(items, NewItem(product))

\* updatedCartItems of handleAddToCart.
MergeItem(items, product) ==
    IF \E i \in DOMAIN items : items[i].productId = product.id
    THEN [i \in DOMAIN items |->
            IF items[i].productId = product.id
            THEN [items[i] EXCEPT !.quantity = @ + 1]
            ELSE items[i]]
    ELSE Append(items, NewItem(product))

GetRequest(uid) ==
    [method |-> "GET", userId |-> uid, items |-> <<>>, superseded |-> FALSE]

PostRequest(uid, items) ==
    [method |-> "POST", userId |-> uid, items |-> items, superseded |-> FALSE]

\* History field of a cart fetch in flight: an add-item has been applied to
\* the local cart since the fetch was issued.
Mark(r) == IF r.method = "GET" THEN [r EXCEPT !.superseded = TRUE] ELSE r

MarkSuperseded(reqs) ==
    [t \in {Mark(r) : r \in BagToSet(reqs)} |->
        IF t.method = "GET"
        THEN CopiesIn(t, reqs) + CopiesIn([t EXCEPT !.superseded = FALSE], reqs)
        ELSE CopiesIn(t, reqs)]

SeqToSet(s) == {s[i] : i \in DOMAIN s}

\* The item collections the cart endpoint may answer with.
ServerCarts ==
    {<<>>,
     <<[productId |-> "p1", name |-> <<"D", "u", "p">>, price |-> 500,
        quantity |-> 1]>>}

\* The bodies of a successful answer: with an items array, or without one.
CartBodies ==
    {[isArray |-> TRUE, items |-> c] : c \in ServerCarts}
        \cup {[isArray |-> FALSE, items |-> <<>>]}

(***************************************************************************)
(* Initial state: the component has mounted, the catalog request is        *)
(* pending and the identity stream has not emitted yet.                    *)
(***************************************************************************)
Init ==
    /\ products = <<>>
    /\ productsLoading = TRUE
    /\ searchTerm = <<>>
    /\ sortOption = "name-asc"
    /\ filterJustIn = ""
    /\ visibleCount = InitialVisible
    /\ observer = Subscribe(InitialVisible, <<>>)
    /\ user = None
    /\ authLoading = TRUE
    /\ cartItems = <<>>
    /\ cartCount = 0
    /\ inflight = EmptyBag
    /\ lastEffects = <<>>

(***************************************************************************)
(* fetchProducts settles.                                                  *)
(***************************************************************************)
FetchProductsOk(data) ==
    /\ productsLoading
    /\ products' = data
    /\ productsLoading' = FALSE
    /\ visibleCount' = ResetVisibleCount(visibleCount)
    /\ observer' = Subscribe(visibleCount',
                             SortedOf(data, searchTerm, filterJustIn, sortOption))
    /\ lastEffects' = <<"setProducts", "setVisibleCount(10)">>
    /\ UNCHANGED <<searchTerm, sortOption, filterJustIn>>
    /\ UNCHANGED cartVars

FetchProductsFail ==
    /\ productsLoading
    /\ productsLoading' = FALSE
    /\ lastEffects' = <<"console.error: Failed to fetch products">>
    /\ UNCHANGED <<products, viewVars>>
    /\ UNCHANGED cartVars

(***************************************************************************)
(* The three controls.  onChange fires when the value changes.             *)
(***************************************************************************)
SetSearchTerm(t) ==
    /\ t # searchTerm
    /\ searchTerm' = t
    /\ visibleCount' = ResetVisibleCount(visibleCount)
    /\ observer' = Subscribe(visibleCount',
                             SortedOf(products, t, filterJustIn, sortOption))
    /\ lastEffects' = <<"setSearchTerm", "setVisibleCount(10)">>
    /\ UNCHANGED <<sortOption, filterJustIn>>
    /\ UNCHANGED catalogVars
    /\ UNCHANGED cartVars

SetSortOption(o) ==
    /\ o # sortOption
    /\ sortOption' = o
    /\ visibleCount' = ResetVisibleCount(visibleCount)
    /\ observer' = Subscribe(visibleCount',
                             SortedOf(products, searchTerm, filterJustIn, o))
    /\ lastEffects' = <<"setSortOption", "setVisibleCount(10)">>
    /\ UNCHANGED <<searchTerm, filterJustIn>>
    /\ UNCHANGED catalogVars
    /\ UNCHANGED cartVars

SetFilterJustIn(f) ==
    /\ f # filterJustIn
    /\ filterJustIn' = f
    /\ visibleCount' = ResetVisibleCount(visibleCount)
    /\ observer' = Subscribe(visibleCount',
                             SortedOf(products, searchTerm, f, sortOption))
    /\ lastEffects' = <<"setFilterJustIn", "setVisibleCount(10)">>
    /\ UNCHANGED <<searchTerm, sortOption>>
    /\ UNCHANGED catalogVars
    /\ UNCHANGED cartVars

(***************************************************************************)
(* The observer reports the sentinel.                                      *)
(***************************************************************************)
IntersectionCallback(isIntersecting) ==
    /\ visibleCount' = OnIntersect(observer, isIntersecting, visibleCount)
    /\ observer' = Subscribe(visibleCount', sortedProducts)
    /\ lastEffects' = IF isIntersecting /\ observer.visibleCount < observer.length
                      THEN <<"setVisibleCount(updater)">>
                      ELSE <<>>
    /\ UNCHANGED <<searchTerm, sortOption, filterJustIn>>
    /\ UNCHANGED catalogVars
    /\ UNCHANGED cartVars

(***************************************************************************)
(* The identity stream emits.                                              *)
(***************************************************************************)
AuthStateChanged(currentUser) ==
    /\ user' = currentUser
    /\ authLoading' = FALSE
    /\ IF currentUser # user /\ currentUser # None
       THEN /\ BagCardinality(inflight) < MaxInFlight
            /\ inflight' = inflight (+) SetToBag({GetRequest(currentUser)})
            /\ lastEffects' = <<"setUser", "fetch GET /api/cart">>
       ELSE /\ inflight' = inflight
            /\ lastEffects' = <<"setUser">>
    /\ UNCHANGED <<cartItems, cartCount>>
    /\ UNCHANGED catalogVars
    /\ UNCHANGED viewVars

(***************************************************************************)
(* fetchCart settles: request req is answered with the body cartData.      *)
(***************************************************************************)
FetchCartOk(req, cartData) ==
    /\ BagIn(req, inflight)
    /\ req.method = "GET"
    /\ IF cartData.isArray
       THEN /\ cartCount' = TotalCount(cartData.items)
            /\ cartItems' = cartData.items
       ELSE /\ cartCount' = 0
            /\ cartItems' = <<>>
    /\ inflight' = inflight (-) SetToBag({req})
    /\ lastEffects' = <<"setCartCount", "setCartItems">>
    /\ UNCHANGED <<user, authLoading>>
    /\ UNCHANGED catalogVars
    /\ UNCHANGED viewVars

FetchCartFail(req) ==
    /\ BagIn(req, inflight)
    /\ req.method = "GET"
    /\ inflight' = inflight (-) SetToBag({req})
    /\ lastEffects' = <<"console.error: Failed to fetch cart">>
    /\ UNCHANGED <<user, authLoading, cartItems, cartCount>>
    /\ UNCHANGED catalogVars
    /\ UNCHANGED viewVars

(***************************************************************************)
(* handleAddToCart up to its await.  The product is one of the rendered    *)
(* cards: the list is rendered once the catalog request has settled.       *)
(***************************************************************************)
HandleAddToCartNoAuthCheck(product) ==
    /\ ~productsLoading
    /\ cartCount < MaxCartCount
    /\ BagCardinality(inflight) < MaxInFlight
    /\ cartItems' = MergeItem(cartItems, product)
    /\ cartCount' = TotalCount(cartItems')
    /\ inflight' = MarkSuperseded(inflight)
                     (+) SetToBag({PostRequest(user, cartItems')})
    /\ lastEffects' = <<"setCartItems", "setCartCount", "fetch POST /api/cart">>
    /\ product \in SeqToSet(visibleProducts)
    /\ UNCHANGED <<user, authLoading>>
    /\ UNCHANGED catalogVars
    /\ UNCHANGED viewVars

HandleAddToCartStaleBody(product) ==
    /\ ~productsLoading
    /\ IF user = None
       THEN /\ lastEffects' = <<"router.push /signin">>
            /\ UNCHANGED <<cartItems, cartCount, inflight>>
       ELSE /\ cartCount < MaxCartCount
            /\ BagCardinality(inflight) < MaxInFlight
            /\ cartItems' = MergeItem(cartItems, product)
            /\ cartCount' = TotalCount(cartItems')
            /\ inflight' = MarkSuperseded(inflight)
                             (+) SetToBag({PostRequest(user, cartItems)})
            /\ lastEffects' = <<"setCartItems", "setCartCount",
                                "fetch POST /api/cart">>
    /\ product \in SeqToSet(visibleProducts)
    /\ UNCHANGED <<user, authLoading>>
    /\ UNCHANGED catalogVars
    /\ UNCHANGED viewVars

HandleAddToCart(product) ==
    /\ ~productsLoading
    /\ IF user = None
       THEN /\ lastEffects' = <<"router.push /signin">>
            /\ UNCHANGED <<cartItems, cartCount, inflight>>
       ELSE /\ cartCount < MaxCartCount
            /\ BagCardinality(inflight) < MaxInFlight
            /\ cartItems' = MergeItem(cartItems, product)
            /\ cartCount' = TotalCount(cartItems')
            /\ inflight' = MarkSuperseded(inflight)
                             (+) SetToBag({PostRequest(user, cartItems')})
            /\ lastEffects' = <<"setCartItems", "setCartCount",
                                "fetch POST /api/cart">>
    /\ product \in SeqToSet(visibleProducts)
    /\ UNCHANGED <<user, authLoading>>
    /\ UNCHANGED catalogVars
    /\ UNCHANGED viewVars

(***************************************************************************)
(* handleAddToCart after its await: the persist request req is answered.   *)
(***************************************************************************)
PersistOk(req) ==
    /\ BagIn(req, inflight)
    /\ req.method = "POST"
    /\ inflight' = inflight (-) SetToBag({req})
    /\ lastEffects' = <<"toast.success">>
    /\ UNCHANGED <<user, authLoading, cartItems, cartCount>>
    /\ UNCHANGED catalogVars
    /\ UNCHANGED viewVars

PersistFailRollback(req) ==
    /\ BagIn(req, inflight)
    /\ req.method = "POST"
    /\ inflight' = inflight (-) SetToBag({req})
    /\ cartItems' = <<>>
    /\ cartCount' = 0
    /\ lastEffects' = <<"console.error: Error updating the cart", "toast.error">>
    /\ UNCHANGED <<user, authLoading>>
    /\ UNCHANGED catalogVars
    /\ UNCHANGED viewVars

PersistFail(req) ==
    /\ BagIn(req, inflight)
    /\ req.method = "POST"
    /\ inflight' = inflight (-) SetToBag({req})
    /\ lastEffects' = <<"console.error: Error updating the cart", "toast.error">>
    /\ UNCHANGED <<user, authLoading, cartItems, cartCount>>
    /\ UNCHANGED catalogVars
    /\ UNCHANGED viewVars

(***************************************************************************)
(* Specifications.  Spec is the cart store over the small catalog;         *)
(* SpecView is the pipeline and the reveal controller over catalogs large  *)
(* enough for the window to grow twice.                                    *)
(***************************************************************************)
Next ==
    \/ FetchProductsOk(SmallCatalog)
    \/ FetchProductsFail
    \/ \E u \in Users \cup {None} : AuthStateChanged(u)
    \/ \E req \in BagToSet(inflight), cartData \in CartBodies :
          FetchCartOk(req, cartData)
    \/ \E req \in BagToSet(inflight) : FetchCartFail(req)
    \/ \E p \in SeqToSet(SmallCatalog) : HandleAddToCart(p)
    \/ \E req \in BagToSet(inflight) : PersistOk(req)
    \/ \E req \in BagToSet(inflight) : PersistFail(req)

Spec == Init /\ [][Next]_vars

NextView ==
    \/ \E data \in {BigCatalog, SmallCatalog} : FetchProductsOk(data)
    \/ FetchProductsFail
    \/ \E t \in SearchTerms : SetSearchTerm(t)
    \/ \E o \in SortOptions : SetSortOption(o)
    \/ \E f \in JustInOptions : SetFilterJustIn(f)
    \/ \E b \in BOOLEAN : IntersectionCallback(b)

SpecView == Init /\ [][NextView]_vars

(***************************************************************************)
(* Properties.                                                             *)
(***************************************************************************)
AddEffects == <<"setCartItems", "setCartCount", "fetch POST /api/cart">>
PersistFailEffects == <<"console.error: Error updating the cart", "toast.error">>

UniqueProductIds(items) ==
    \A i, j \in DOMAIN items : items[i].productId = items[j].productId => i = j

\* C1: an add-item while no identity is present leaves the cart items, the
\* cart total and the requests in flight unchanged, shows no notification
\* and only redirects to /signin, for every product and every cart.
C1_UnauthenticatedAddOnlyRedirects ==
    [][\A p \in SeqToSet(SmallCatalog) :
          (user = None /\ HandleAddToCart(p)) =>
              /\ cartItems' = cartItems
              /\ cartCount' = cartCount
              /\ inflight' = inflight
              /\ lastEffects' = <<"router.push /signin">>]_vars

C1_Witness ==
    /\ user = None
    /\ cartItems # <<>>
    /\ lastEffects = <<"router.push /signin">>

\* C2: the local cart never holds two items with the same product
\* identifier; a signed-in add-item of a product in the cart raises that
\* item's quantity by one and adds no entry, and of a product not in the
\* cart appends one entry with quantity 1.
C2_OneItemPerProduct ==
    [][/\ UniqueProductIds(cartItems)
       /\ UniqueProductIds(cartItems')
       /\ \A p \in SeqToSet(SmallCatalog) :
            (user # None /\ HandleAddToCart(p)) =>
               IF \E i \in DOMAIN cartItems : cartItems[i].productId = p.id
               THEN /\ Len(cartItems') = Len(cartItems)
                    /\ \A i \in DOMAIN cartItems :
                         /\ cartItems'[i].productId = cartItems[i].productId
                         /\ cartItems'[i].quantity =
                              IF cartItems[i].productId = p.id
                              THEN cartItems[i].quantity + 1
                              ELSE cartItems[i].quantity
               ELSE /\ Len(cartItems') = Len(cartItems) + 1
                    /\ SubSeq(cartItems', 1, Len(cartItems)) = cartItems
                    /\ cartItems'[Len(cartItems')].productId = p.id
                    /\ cartItems'[Len(cartItems')].quantity = 1]_vars

C2_Witness ==
    /\ lastEffects = AddEffects
    /\ Len(cartItems) = 1
    /\ cartItems[1].quantity = 2

\* C3: a signed-in add-item applies the merged collection to the local items
\* and total before it dispatches the persist request, dispatches exactly
\* one request, and that request carries the current identity and the
\* collection just applied.
C3_OptimisticApplyThenOnePersist ==
    [][\A p \in SeqToSet(SmallCatalog) :
          (user # None /\ HandleAddToCart(p)) =>
              /\ cartItems' # cartItems
              /\ cartCount' = TotalCount(cartItems')
              /\ lastEffects' = AddEffects
              /\ BagCardinality(inflight') = BagCardinality(inflight) + 1
              /\ \E r \in BagToSet(inflight') :
                    /\ r.method = "POST"
                    /\ r.userId = user
                    /\ r.items = cartItems'
                    /\ CopiesIn(r, inflight') = CopiesIn(r, inflight) + 1]_vars

C3_Witness ==
    /\ lastEffects = AddEffects
    /\ cartItems # <<>>
    /\ \E r \in BagToSet(inflight) :
          r.method = "POST" /\ r.userId = user /\ r.items = cartItems

\* C4: a failed persist shows the failure notification and no success
\* notification, sends no further request and leaves the optimistic items
\* and total as they are; a successful persist shows exactly the success
\* notification.
C4_PersistFailureNotifiesWithoutRollback ==
    [][\A req \in BagToSet(inflight) :
          /\ PersistFail(req) =>
                /\ lastEffects' = PersistFailEffects
                /\ cartItems' = cartItems
                /\ cartCount' = cartCount
                /\ BagCardinality(inflight') = BagCardinality(inflight) - 1
          /\ PersistOk(req) =>
                /\ lastEffects' = <<"toast.success">>
                /\ cartItems' = cartItems
                /\ BagCardinality(inflight') = BagCardinality(inflight) - 1]_vars

C4_Witness ==
    /\ lastEffects = PersistFailEffects
    /\ cartItems # <<>>
    /\ cartCount = TotalCount(cartItems)

\* C5: when the identity stream emits none after an identity was present,
\* the local cart items are empty and the total is 0 afterwards, and no
\* request is sent.
C5_SignOutDiscardsCart ==
    [][(user # None /\ user' = None) =>
          /\ cartItems' = <<>>
          /\ cartCount' = 0
          /\ inflight' = inflight]_vars

C7_SentinelGrowthIsCapped ==
    [][(\E b \in BOOLEAN : IntersectionCallback(b)) =>
          /\ visibleCount = Len(sortedProducts) => visibleCount' = visibleCount
          /\ visibleCount' >= visibleCount
          /\ visibleCount' > visibleCount =>
                visibleCount' = Min(visibleCount + RevealIncrement,
                                    Len(sortedProducts))]_vars

C7_Witness ==
    /\ lastEffects = <<"setVisibleCount(updater)">>
    /\ visibleCount = Len(sortedProducts)
    /\ visibleCount < InitialVisible + 2 * RevealIncrement
    /\ visibleCount > InitialVisible + RevealIncrement

C9_FailedLoadLeavesEmptyCollection ==
    [][/\ FetchProductsFail =>
              /\ lastEffects' = <<"console.error: Failed to fetch products">>
              /\ products' = <<>>
       /\ \A req \in BagToSet(inflight) :
              FetchCartFail(req) =>
                  /\ lastEffects' = <<"console.error: Failed to fetch cart">>
                  /\ cartItems' = <<>>
                  /\ cartCount' = 0]_vars

\* C10: the answer to a cart fetch issued for an identity is not applied to
\* the local cart once the current identity is another one or none, nor
\* once an add-item has been applied since the fetch was issued.
C10_StaleCartAnswerIsIgnored ==
    [][\A req \in BagToSet(inflight), cartData \in CartBodies :
          (FetchCartOk(req, cartData) /\ (req.userId # user \/ req.superseded))
              => (cartItems' = cartItems /\ cartCount' = cartCount)]_vars

====
